---- MODULE Spec2Model ----
(***************************************************************************)
(* A model of latex-inliner.py (class LatexInliner).                       *)
(*                                                                         *)
(* Text is a sequence of one-character strings.  The character scan of     *)
(* is_in_math_mode, the comment wrapper, the directive resolver and the    *)
(* line pass of remove_blank_lines_in_math are translated from the Python  *)
(* source, statement by statement.                                         *)
(***************************************************************************)
EXTENDS Integers, Sequences, FiniteSets, TLC

VARIABLES
    \* the document under test as the tokens it was written with
    doc_tokens,
    \* is_in_math_mode(text, position): the two arguments, the loop's locals,
    \* the returned value
    text, position, scan, scan_pc, scan_result,
    \* remove_blank_lines_in_math(content): the argument, `lines`, the loop's
    \* locals (with `result`), the returned value
    content, lines, strip, strip_pc, strip_output,
    \* add_inclusion_comments(content, file_path, in_math_mode): the three
    \* arguments and the returned value
    inc_content, inc_file_path, inc_in_math_mode, inc_result, inc_pc,
    \* inline_latex: the file system (path -> content), the files whose read
    \* raises, self.main_file, self.processed_files, self.current_depth, the
    \* activations of resolve_input_commands (innermost last),
    \* inlined_content, the lines printed, the position in inline_latex
    fs, unreadable, main_file, processed_files, current_depth, frames,
    inlined_content, stdout, pc

scanVars == <<text, position, scan, scan_pc, scan_result>>
stripVars == <<content, lines, strip, strip_pc, strip_output>>

incVars == <<inc_content, inc_file_path, inc_in_math_mode, inc_result, inc_pc>>

inlineVars == <<fs, unreadable, main_file, processed_files, current_depth, frames,
                inlined_content, stdout, pc>>

vars == <<doc_tokens, scanVars, stripVars, incVars, inlineVars>>

----------------------------------------------------------------------------
(* Characters and strings *)

BS == "\\"
NL == "\n"
SP == " "

\* str.startswith / str.endswith / slicing text[a:b] (0-based, end exclusive)
Slice(s, a, b) ==
    LET lo == IF a < 0 THEN 0 ELSE a
        hi == IF b > Len(s) THEN Len(s) ELSE b
    IN IF hi <= lo THEN <<>> ELSE SubSeq(s, lo + 1, hi)

StartsWith(s, p) == Len(p) <= Len(s) /\ SubSeq(s, 1, Len(p)) = p

EndsWith(s, p) == Len(p) <= Len(s) /\ SubSeq(s, Len(s) - Len(p) + 1, Len(s)) = p

\* text[k:].startswith(p), k 0-based
StartsWithAt(s, k, p) == k + Len(p) <= Len(s) /\ SubSeq(s, k + 1, k + Len(p)) = p

\* str.find(p, from): the first 0-based offset >= from where p occurs, or -1
FindFrom(s, p, from) ==
    LET hits == {k \in from..(Len(s) - Len(p)) :
                    p = <<>> \/ (s[k + 1] = p[1] /\ StartsWithAt(s, k, p))}
    IN IF hits = {} THEN -1 ELSE CHOOSE k \in hits : \A j \in hits : k <= j

Find(s, p) == FindFrom(s, p, 0)

Contains(s, p) == Find(s, p) # -1

\* str.count(p): non-overlapping occurrences, left to right
RECURSIVE CountFrom(_, _, _)
CountFrom(s, p, from) ==
    LET k == FindFrom(s, p, from)
    IN IF k = -1 THEN 0 ELSE 1 + CountFrom(s, p, k + Len(p))

Count(s, p) == CountFrom(s, p, 0)

\* the characters str.strip() removes (those of the modelled alphabet)
IsSpace(c) == c \in {" ", "\n", "\t"}

RECURSIVE LStrip(_)
LStrip(s) == IF s # <<>> /\ IsSpace(Head(s)) THEN LStrip(Tail(s)) ELSE s

RECURSIVE RStrip(_)
RStrip(s) ==
    IF s # <<>> /\ IsSpace(s[Len(s)]) THEN RStrip(SubSeq(s, 1, Len(s) - 1)) ELSE s

Strip(s) == RStrip(LStrip(s))

\* str.split('\n'): always at least one line
RECURSIVE SplitLines(_)
SplitLines(s) ==
    LET k == Find(s, <<NL>>)
    IN IF k = -1 THEN <<s>>
       ELSE <<Slice(s, 0, k)>> \o SplitLines(Slice(s, k + 1, Len(s)))

\* '\n'.join(lines)
RECURSIVE JoinLines(_)
JoinLines(ls) ==
    IF ls = <<>> THEN <<>>
    ELSE IF Len(ls) = 1 THEN ls[1]
    ELSE ls[1] \o <<NL>> \o JoinLines(Tail(ls))

RECURSIVE Concat(_)
Concat(ss) == IF ss = <<>> THEN <<>> ELSE Head(ss) \o Concat(Tail(ss))

----------------------------------------------------------------------------
(* self.math_environments *)

math_environments == {
    <<"e","q","u","a","t","i","o","n">>, <<"e","q","u","a","t","i","o","n","*">>,
    <<"a","l","i","g","n">>, <<"a","l","i","g","n","*">>,
    <<"g","a","t","h","e","r">>, <<"g","a","t","h","e","r","*">>,
    <<"m","u","l","t","l","i","n","e">>, <<"m","u","l","t","l","i","n","e","*">>,
    <<"f","l","a","l","i","g","n">>, <<"f","l","a","l","i","g","n","*">>,
    <<"e","q","n","a","r","r","a","y">>, <<"e","q","n","a","r","r","a","y","*">>,
    <<"s","p","l","i","t">>, <<"a","l","i","g","n","e","d">>,
    <<"g","a","t","h","e","r","e","d">>, <<"c","a","s","e","s">>,
    <<"m","a","t","r","i","x">>, <<"p","m","a","t","r","i","x">>,
    <<"b","m","a","t","r","i","x">>, <<"B","m","a","t","r","i","x">>,
    <<"v","m","a","t","r","i","x">>, <<"V","m","a","t","r","i","x">>,
    <<"s","m","a","l","l","m","a","t","r","i","x">>,
    <<"s","u","b","e","q","u","a","t","i","o","n","s">>,
    <<"m","a","t","h">>, <<"d","i","s","p","l","a","y","m","a","t","h">>,
    <<"a","r","r","a","y">> }

BeginTok == <<BS, "b", "e", "g", "i", "n">>
EndTok == <<BS, "e", "n", "d">>

\* re.match(r'\\begin\{([^}]+)\}', s[k:]) and re.match(r'\\end\{([^}]+)\}', s[k:]):
\* the keyword, "{", one or more characters other than "}", then "}".
\* [name |-> group(1), len |-> len(group(0))], or len = 0 for no match.
BraceMatch(s, k, kw) ==
    LET open == k + Len(kw)
        close == FindFrom(s, <<"}">>, open + 1)
    IN IF StartsWithAt(s, k, kw \o <<"{">>) /\ close > open + 1
       THEN [name |-> Slice(s, open + 1, close), len |-> close + 1 - k]
       ELSE [name |-> <<>>, len |-> 0]

----------------------------------------------------------------------------
(* is_in_math_mode *)

\* the loop's locals before the first iteration
ScanInit ==
    [i |-> 0, in_math |-> FALSE, in_display_math |-> FALSE,
     in_double_dollar |-> FALSE, math_env_stack |-> <<>>]

\* the branch `if char == '\\'` of the loop body: the state before `i += 1`
ScanBackslash(tb, s) ==
    IF ~(s.i + 1 < Len(tb)) THEN s
    ELSE
    LET next_char == tb[s.i + 2] IN
    IF next_char = "[" THEN
        [s EXCEPT !.in_display_math = TRUE, !.in_math = TRUE, !.i = s.i + 1]
    ELSE IF next_char = "]" /\ s.in_display_math THEN
        [s EXCEPT !.in_display_math = FALSE, !.in_math = FALSE, !.i = s.i + 1]
    ELSE IF next_char = "(" THEN
        [s EXCEPT !.in_math = TRUE, !.i = s.i + 1]
    ELSE IF next_char = ")" /\ s.in_math /\ ~s.in_display_math /\ ~s.in_double_dollar THEN
        [s EXCEPT !.in_math = FALSE, !.i = s.i + 1]
    ELSE IF Slice(tb, s.i, s.i + 6) = BeginTok THEN
        LET m == BraceMatch(tb, s.i, BeginTok) IN
        IF m.len = 0 THEN s
        ELSE IF m.name \in math_environments
             THEN [s EXCEPT !.in_math = TRUE,
                            !.math_env_stack = Append(s.math_env_stack, m.name),
                            !.i = s.i + m.len - 1]
             ELSE [s EXCEPT !.i = s.i + m.len - 1]
    ELSE IF Slice(tb, s.i, s.i + 4) = EndTok THEN
        LET m == BraceMatch(tb, s.i, EndTok) IN
        IF m.len = 0 THEN s
        ELSE IF s.math_env_stack # <<>> /\ m.name \in math_environments
             THEN LET popped == SubSeq(s.math_env_stack, 1, Len(s.math_env_stack) - 1)
                  IN [s EXCEPT !.math_env_stack = popped,
                               !.in_math = IF popped = <<>> /\ ~s.in_display_math
                                              /\ ~s.in_double_dollar
                                           THEN FALSE ELSE s.in_math,
                               !.i = s.i + m.len - 1]
             ELSE [s EXCEPT !.i = s.i + m.len - 1]
    ELSE s

\* the branch `elif char == '$'`
ScanDollar(tb, s) ==
    IF s.i + 1 < Len(tb) /\ tb[s.i + 2] = "$" THEN
        IF s.in_double_dollar
        THEN [s EXCEPT !.in_double_dollar = FALSE, !.in_math = FALSE, !.i = s.i + 1]
        ELSE [s EXCEPT !.in_double_dollar = TRUE, !.in_math = TRUE, !.i = s.i + 1]
    ELSE IF s.i > 0 /\ tb[s.i] = BS THEN s
    ELSE [s EXCEPT !.in_math = ~s.in_math]

\* one iteration of `while i < len(text_before)`
ScanStep(tb, s) ==
    LET char == tb[s.i + 1]
        t == IF char = BS THEN ScanBackslash(tb, s)
             ELSE IF char = "$" THEN ScanDollar(tb, s)
             ELSE s
    IN [t EXCEPT !.i = t.i + 1]

RECURSIVE ScanLoop(_, _)
ScanLoop(tb, s) == IF s.i < Len(tb) THEN ScanLoop(tb, ScanStep(tb, s)) ELSE s

\* the return expression
ScanResult(s) ==
    s.in_math \/ s.in_display_math \/ s.in_double_dollar \/ s.math_env_stack # <<>>

is_in_math_mode(txt, pos) == ScanResult(ScanLoop(Slice(txt, 0, pos), ScanInit))

----------------------------------------------------------------------------
(* Documents: sequences of tokens, each token a string *)

Begin(name) == BeginTok \o <<"{">> \o name \o <<"}">>
End(name) == EndTok \o <<"{">> \o name \o <<"}">>

EnvMath == <<"m","a","t","h">>
EnvCases == <<"c","a","s","e","s">>

DisplayOpen == <<BS, "[">>
DisplayClose == <<BS, "]">>
ParenOpen == <<BS, "(">>
ParenClose == <<BS, ")">>
Dollar == <<"$">>
DoubleDollar == <<"$", "$">>

RECURSIVE SeqsUpTo(_, _)
SeqsUpTo(S, n) ==
    IF n = 0 THEN {<<>>}
    ELSE LET shorter == SeqsUpTo(S, n - 1)
         IN shorter \cup {Append(q, x) : q \in {r \in shorter : Len(r) = n - 1}, x \in S}

\* the region a token opens or closes ("" for neither)
Opens(tok) ==
    IF tok = DisplayOpen THEN "display"
    ELSE IF tok = ParenOpen THEN "paren"
    ELSE IF StartsWith(tok, BeginTok) THEN "env"
    ELSE ""

Closes(tok) ==
    IF tok = DisplayClose THEN "display"
    ELSE IF tok = ParenClose THEN "paren"
    ELSE IF StartsWith(tok, EndTok) THEN "env"
    ELSE ""

EnvName(tok) == SubSeq(tok, Find(tok, <<"{">>) + 2, Len(tok) - 1)

\* The stack of open regions after the first k tokens of a document, each entry
\* the token that opened it; <<"!">> on top marks a document that is not well
\* formed.  `$` and `$$` close the region of their own kind when it is on top
\* and open one otherwise; \[, \(, $ and $$ open at top level or inside an
\* environment, an environment opens anywhere.
RECURSIVE RegionStack(_, _)
RegionStack(toks, k) ==
    IF k = 0 THEN <<>>
    ELSE
    LET st == RegionStack(toks, k - 1)
        tok == toks[k]
        top == IF st = <<>> THEN <<>> ELSE st[Len(st)]
        pop == SubSeq(st, 1, Len(st) - 1)
        bad == Append(st, <<"!">>)
        hostOk == st = <<>> \/ Opens(top) = "env"
    IN IF top = <<"!">> THEN st
       ELSE IF tok \in {Dollar, DoubleDollar} THEN
            IF top = tok THEN pop
            ELSE IF hostOk THEN Append(st, tok) ELSE bad
       ELSE IF Opens(tok) = "env" THEN
            IF EnvName(tok) \in math_environments THEN Append(st, tok) ELSE bad
       ELSE IF Opens(tok) # "" THEN
            IF hostOk THEN Append(st, tok) ELSE bad
       ELSE IF Closes(tok) = "env" THEN
            IF Opens(top) = "env" /\ EnvName(top) = EnvName(tok) THEN pop ELSE bad
       ELSE IF Closes(tok) # "" THEN
            IF Opens(top) = Closes(tok) THEN pop ELSE bad
       ELSE st

\* no `$` or `$$` token directly follows another one (`$` `$` would read as `$$`)
NoDollarRun(toks) ==
    \A k \in 1..(Len(toks) - 1) :
        ~(toks[k] \in {Dollar, DoubleDollar} /\ toks[k + 1] \in {Dollar, DoubleDollar})

WellFormed(toks) == RegionStack(toks, Len(toks)) = <<>> /\ NoDollarRun(toks)

\* the offset of the boundary after the first k tokens
Offset(toks, k) == Len(Concat(SubSeq(toks, 1, k)))

----------------------------------------------------------------------------
(* remove_blank_lines_in_math *)

\* [m.group(1) for m in re.finditer(r'\\begin\{([^}]+)\}', line)] (kw = \begin)
\* and the same for \end: the matches from left to right, never overlapping
RECURSIVE FindAllNames(_, _, _)
FindAllNames(line, kw, from) ==
    IF from >= Len(line) THEN <<>>
    ELSE IF line[from + 1] # BS THEN FindAllNames(line, kw, from + 1)
    ELSE LET m == BraceMatch(line, from, kw)
         IN IF m.len = 0 THEN FindAllNames(line, kw, from + 1)
            ELSE <<m.name>> \o FindAllNames(line, kw, from + m.len)

\* the locals before the first line
StripInit ==
    [i |-> 0, in_math |-> FALSE, in_display_math |-> FALSE,
     in_double_dollar |-> FALSE, math_env_stack |-> <<>>, result |-> <<>>]

\* `if '\\[' in line:`
StripDisplayOpen(line, s) ==
    LET bracket_pos == Find(line, DisplayOpen)
        close_bracket_pos == Find(line, DisplayClose)
    IN IF Contains(line, DisplayOpen) /\ ~s.in_display_math
          /\ (close_bracket_pos = -1 \/ close_bracket_pos < bracket_pos)
       THEN [s EXCEPT !.in_display_math = TRUE, !.in_math = TRUE]
       ELSE s

\* `if '\\]' in line and in_display_math:`
StripDisplayClose(line, s) ==
    LET bracket_pos == Find(line, DisplayClose)
        open_bracket_pos == Find(line, DisplayOpen)
    IN IF Contains(line, DisplayClose) /\ s.in_display_math
          /\ (open_bracket_pos = -1 \/ bracket_pos > open_bracket_pos)
       THEN [s EXCEPT !.in_display_math = FALSE,
                      !.in_math = IF ~s.in_double_dollar /\ s.math_env_stack = <<>>
                                  THEN FALSE ELSE s.in_math]
       ELSE s

\* `dollar_count = line.count('$$') - line.count('\\$\\$')`
StripDoubleDollar(line, s) ==
    LET dollar_count == Count(line, DoubleDollar) - Count(line, <<BS, "$", BS, "$">>)
    IN IF dollar_count > 0
       THEN IF ~s.in_double_dollar
            THEN [s EXCEPT !.in_double_dollar = TRUE, !.in_math = TRUE]
            ELSE [s EXCEPT !.in_double_dollar = FALSE,
                           !.in_math = IF ~s.in_display_math /\ s.math_env_stack = <<>>
                                       THEN FALSE ELSE s.in_math]
       ELSE s

\* `single_dollar_count = line.count('$') - 2 * line.count('$$') - line.count('\\$')`
StripSingleDollar(line, s) ==
    LET single_dollar_count ==
            Count(line, Dollar) - 2 * Count(line, DoubleDollar) - Count(line, <<BS, "$">>)
    IN IF single_dollar_count % 2 = 1 THEN [s EXCEPT !.in_math = ~s.in_math] ELSE s

\* `if '\\(' in line and '\\\\)' not in line:` then `if '\\\\)' in line and ...`:
\* the second literal of the source is backslash, backslash, ")"
StripParen(line, s) ==
    LET close_lit == <<BS, BS, ")">>
        t == IF Contains(line, ParenOpen) /\ ~Contains(line, close_lit)
             THEN [s EXCEPT !.in_math = TRUE] ELSE s
    IN IF Contains(line, close_lit) /\ t.in_math /\ ~t.in_display_math
          /\ ~t.in_double_dollar
       THEN [t EXCEPT !.in_math = FALSE] ELSE t

\* `for match in begin_matches:`
RECURSIVE StripBegins(_, _)
StripBegins(names, s) ==
    IF names = <<>> THEN s
    ELSE StripBegins(Tail(names),
            IF Head(names) \in math_environments
            THEN [s EXCEPT !.math_env_stack = Append(s.math_env_stack, Head(names)),
                           !.in_math = TRUE]
            ELSE s)

\* StripEnds without the nesting: any \end closes every open environment
StripEndsFlat(names, s) ==
    IF names = <<>> THEN s
    ELSE [s EXCEPT !.math_env_stack = <<>>,
                   !.in_math = IF ~s.in_display_math /\ ~s.in_double_dollar
                               THEN FALSE ELSE s.in_math]

\* `for match in end_matches:`
RECURSIVE StripEnds(_, _)
StripEnds(names, s) ==
    IF names = <<>> THEN s
    ELSE StripEnds(Tail(names),
            IF s.math_env_stack # <<>> /\ Head(names) \in math_environments
            THEN LET popped == SubSeq(s.math_env_stack, 1, Len(s.math_env_stack) - 1)
                 IN [s EXCEPT !.math_env_stack = popped,
                              !.in_math = IF popped = <<>> /\ ~s.in_display_math
                                             /\ ~s.in_double_dollar
                                          THEN FALSE ELSE s.in_math]
            ELSE s)

\* the math state after the checks of one line
StripTrack(line, s) ==
    StripEnds(FindAllNames(line, EndTok, 0),
      StripBegins(FindAllNames(line, BeginTok, 0),
        StripParen(line,
          StripSingleDollar(line,
            StripDoubleDollar(line,
              StripDisplayClose(line,
                StripDisplayOpen(line, s)))))))

any_math_mode(s) ==
    s.in_math \/ s.in_display_math \/ s.in_double_dollar \/ s.math_env_stack # <<>>

\* one iteration of `while i < len(lines)`
\* the loop body appending the trimmed line
StripStepTrim(ls, s) ==
    LET line == ls[s.i + 1]
        t == StripTrack(line, s)
    IN IF any_math_mode(t) /\ Strip(line) = <<>>
       THEN [t EXCEPT !.i = s.i + 1]
       ELSE [t EXCEPT !.result = Append(s.result, Strip(line)), !.i = s.i + 1]

StripStep(ls, s) ==
    LET line == ls[s.i + 1]
        t == StripTrack(line, s)
    IN IF any_math_mode(t) /\ Strip(line) = <<>>
       THEN [t EXCEPT !.i = s.i + 1]
       ELSE [t EXCEPT !.result = Append(s.result, line), !.i = s.i + 1]

RECURSIVE StripLoop(_, _)
StripLoop(ls, s) == IF s.i < Len(ls) THEN StripLoop(ls, StripStep(ls, s)) ELSE s

remove_blank_lines_in_math(c) ==
    JoinLines(StripLoop(SplitLines(c), StripInit).result)


----------------------------------------------------------------------------
(* safe_add_math_comments and add_inclusion_comments *)

\* Path.name: the last component of a path
RECURSIVE BaseName(_)
BaseName(path) ==
    LET k == Find(path, <<"/">>)
    IN IF k = -1 THEN path ELSE BaseName(Slice(path, k + 1, Len(path)))

\* the literals of the f-strings
InlineLit == <<"%", " ", "I", "n", "l", "i", "n", "e", ":", " ">>
EndLit == <<"%", " ", "E", "n", "d", ":", " ">>
BeginLit == <<"%", " ", "B", "e", "g", "i", "n", ":", " ">>
BeginIncludedLit == <<"%", " ", "-", "-", "-", " ", "B", "e", "g", "i", "n", " ", "i", "n", "c", "l", "u", "d", "e", "d", " ", "f", "i", "l", "e", ":", " ">>
EndIncludedLit == <<"%", " ", "-", "-", "-", " ", "E", "n", "d", " ", "i", "n", "c", "l", "u", "d", "e", "d", " ", "f", "i", "l", "e", ":", " ">>
DashesLit == <<" ", "-", "-", "-">>

\* `math_delimiters`
math_delimiters ==
    <<DoubleDollar, DisplayOpen, DisplayClose, Dollar, ParenOpen, ParenClose>>

\* `if len(content_stripped) < 10:`
ShortContentLen == 10

safe_add_math_comments(c, file_path) ==
    LET filename == BaseName(file_path)
        content_stripped == Strip(c)
        starts_with_delimiter ==
            \E k \in 1..Len(math_delimiters) : StartsWith(content_stripped, math_delimiters[k])
        ends_with_delimiter ==
            \E k \in 1..Len(math_delimiters) : EndsWith(content_stripped, math_delimiters[k])
        ls == SplitLines(c)
    IN IF Len(content_stripped) < ShortContentLen THEN
           InlineLit \o filename \o <<NL>> \o c \o <<NL>> \o EndLit \o filename \o <<NL>>
       ELSE IF (starts_with_delimiter \/ ends_with_delimiter) /\ Len(ls) >= 2 THEN
           LET begin_comment == BeginLit \o filename
               end_comment == EndLit \o filename \o <<NL>>
           IN JoinLines(<<ls[1], begin_comment>> \o SubSeq(ls, 2, Len(ls) - 1)
                        \o <<end_comment, ls[Len(ls)]>>)
       ELSE
           BeginLit \o filename \o <<NL>> \o c \o <<NL>> \o EndLit \o filename \o <<NL>>

add_inclusion_comments(c, file_path, math) ==
    LET filename == BaseName(file_path)
    IN IF math THEN safe_add_math_comments(c, file_path)
       ELSE BeginIncludedLit \o filename \o DashesLit \o <<NL>> \o c
            \o EndIncludedLit \o filename \o DashesLit \o <<NL>>


----------------------------------------------------------------------------
(* The directive pattern of resolve_input_commands:
   r'\\(input|include)\s*(\[.*?\])?\s*\{([^}]+)\}' *)

InputTok == <<BS, "i", "n", "p", "u", "t">>
IncludeTok == <<BS, "i", "n", "c", "l", "u", "d", "e">>

NoMatch == [start |-> -1, end |-> -1, arg |-> <<>>]

\* `\s*`: the first offset >= k that holds no whitespace
RECURSIVE SkipSpace(_, _)
SkipSpace(s, k) == IF k < Len(s) /\ IsSpace(s[k + 1]) THEN SkipSpace(s, k + 1) ELSE k

\* `\s*\{([^}]+)\}` at offset r: [end, arg], end = -1 for no match
TailMatch(s, r) ==
    LET q == SkipSpace(s, r)
        close == FindFrom(s, <<"}">>, q + 1)
    IN IF q < Len(s) /\ s[q + 1] = "{" /\ close > q + 1
       THEN [end |-> close + 1, arg |-> Slice(s, q + 1, close)]
       ELSE [end |-> -1, arg |-> <<>>]

\* `(\[.*?\])` with "[" at offset q, then the tail: the lazy `.*?` grows (never
\* over a newline) to the first "]" after which the tail matches; j is the
\* offset where the "]" is tried
RECURSIVE OptionMatch(_, _)
OptionMatch(s, j) ==
    IF j >= Len(s) THEN [end |-> -1, arg |-> <<>>]
    ELSE IF s[j + 1] = "]" /\ TailMatch(s, j + 1).end # -1 THEN TailMatch(s, j + 1)
    ELSE IF s[j + 1] = NL THEN [end |-> -1, arg |-> <<>>]
    ELSE OptionMatch(s, j + 1)

\* the pattern at offset k
MatchDirectiveAt(s, k) ==
    LET kwlen == IF StartsWithAt(s, k, InputTok) THEN Len(InputTok)
                 ELSE IF StartsWithAt(s, k, IncludeTok) THEN Len(IncludeTok)
                 ELSE 0
        q == SkipSpace(s, k + kwlen)
        opt == IF q < Len(s) /\ s[q + 1] = "[" THEN OptionMatch(s, q + 1)
               ELSE [end |-> -1, arg |-> <<>>]
        m == IF opt.end # -1 THEN opt ELSE TailMatch(s, q)
    IN IF kwlen = 0 \/ m.end = -1 THEN NoMatch
       ELSE [start |-> k, end |-> m.end, arg |-> m.arg]

\* the next match of re.sub at or after offset `from`
RECURSIVE NextMatch(_, _)
NextMatch(s, from) ==
    IF from >= Len(s) THEN NoMatch
    ELSE IF s[from + 1] = BS /\ MatchDirectiveAt(s, from).start # -1
         THEN MatchDirectiveAt(s, from)
    ELSE NextMatch(s, from + 1)

----------------------------------------------------------------------------
(* Paths (pathlib.Path) and the file system *)

TexSuffix == <<".", "t", "e", "x">>

\* `current_dir / file_arg` for a relative file_arg; the directory "." is <<>>
JoinPath(dir, arg) == IF dir = <<>> THEN arg ELSE dir \o <<"/">> \o arg

\* the offset of the last "/" of a path, or -1
RECURSIVE LastSlash(_, _)
LastSlash(path, k) ==
    IF k = 0 THEN -1 ELSE IF path[k] = "/" THEN k - 1 ELSE LastSlash(path, k - 1)

\* Path.parent: lexical, ".." components are kept
Parent(path) ==
    LET k == LastSlash(path, Len(path)) IN IF k = -1 THEN <<>> ELSE Slice(path, 0, k)

\* the components of a path
RECURSIVE SplitPath(_)
SplitPath(path) ==
    LET k == Find(path, <<"/">>)
    IN IF k = -1 THEN <<path>>
       ELSE <<Slice(path, 0, k)>> \o SplitPath(Slice(path, k + 1, Len(path)))

\* the directories of a file system: the proper prefixes of its files' paths
DirsOf(files) ==
    {<<>>} \cup UNION {{Slice(f, 0, k) : k \in {j \in 0..(Len(f) - 1) : f[j + 1] = "/"}} :
                         f \in files}

\* The file or directory a path leads to, walking its components from the
\* working directory: ".." goes to the parent of a directory that exists.
\* <<"?">> when there is none.
RECURSIVE Walk(_, _, _)
Walk(files, cur, comps) ==
    IF comps = <<>> THEN cur
    ELSE IF cur \notin DirsOf(files) THEN <<"?">>
    ELSE IF Head(comps) = <<".", ".">>
         THEN IF cur = <<>> THEN <<"?">> ELSE Walk(files, Parent(cur), Tail(comps))
         ELSE Walk(files, JoinPath(cur, Head(comps)), Tail(comps))

RealPath(files, path) == Walk(files, <<>>, SplitPath(path))

\* Path.exists()
Exists(files, path) == RealPath(files, path) \in files \cup DirsOf(files)


----------------------------------------------------------------------------
(* resolve_input_commands and its callback replace_command *)

\* `self.max_depth = 10`
max_depth == 10

\* file_arg after `.strip()` and `if not file_arg.endswith('.tex')`
FileArg(arg) ==
    LET a == Strip(arg) IN IF EndsWith(a, TexSuffix) THEN a ELSE a \o TexSuffix

\* `possible_paths` (file_path.with_suffix('.tex') is file_path: its name ends
\* in .tex)
possible_paths(main, current_dir, arg) ==
    LET file_path == JoinPath(current_dir, FileArg(arg))
    IN <<file_path, file_path, JoinPath(Parent(main), FileArg(arg)),
         JoinPath(Parent(main), BaseName(file_path))>>

NotFound == <<"?">>

\* the file_path the callback settles on, or NotFound
ResolvePath(files, main, current_dir, arg) ==
    LET pp == possible_paths(main, current_dir, arg)
        hits == {k \in 1..Len(pp) : Exists(files, pp[k])}
    IN IF hits = {} THEN NotFound
       ELSE pp[CHOOSE k \in hits : \A j \in hits : k <= j]

\* read_file raises: the path is a directory or the file cannot be read
ReadFails(files, bad, path) ==
    RealPath(files, path) \notin files \/ RealPath(files, path) \in bad

\* str(e) of the exception read_file raised
ExceptionText == <<"P", "e", "r", "m", "i", "s", "s", "i", "o", "n", " ", "d", "e", "n", "i", "e", "d">>

CircularLit == <<"%", " ", "C", "i", "r", "c", "u", "l", "a", "r", " ", "i", "n", "c", "l", "u", "d", "e", " ", "p", "r", "e", "v", "e", "n", "t", "e", "d", ":", " ">>
ErrorLit == <<"%", " ", "E", "r", "r", "o", "r", " ", "i", "n", "c", "l", "u", "d", "i", "n", "g", " ">>

\* the two return values of the circular-include branch
CircularComment(g0, math) ==
    IF math THEN CircularLit \o g0
    ELSE <<NL>> \o CircularLit \o g0 \o <<NL>>

\* the except branch returning the comment alone
ErrorCommentOnly(file_path, g0, math) ==
    LET error_msg == ErrorLit \o file_path \o <<":", " ">> \o ExceptionText
    IN IF math THEN error_msg ELSE <<NL>> \o error_msg \o <<NL>>

\* the two return values of the except branch
ErrorComment(file_path, g0, math) ==
    LET error_msg == ErrorLit \o file_path \o <<":", " ">> \o ExceptionText
    IN IF math THEN error_msg \o <<NL>> \o g0
       ELSE <<NL>> \o error_msg \o <<NL>> \o g0 \o <<NL>>

\* file_content as the callback passes it on: stripped in math mode
IncludedContent(c, math) == IF math THEN Strip(c) ELSE c

\* an activation of resolve_input_commands(content, current_dir): `at` is
\* "called" before the depth check and "sub" inside re.sub, `pos` the offset
\* re.sub has reached in content, `out` what it has built; file_path and
\* in_math_mode are those of the replace_command that made the call
Frame(c, dir, path, math) ==
    [content |-> c, current_dir |-> dir, at |-> "called", pos |-> 0, out |-> <<>>,
     file_path |-> path, in_math_mode |-> math]

Top == frames[Len(frames)]

\* the match re.sub hands to replace_command next
match == NextMatch(Top.content, Top.pos)
group0 == Slice(Top.content, match.start, match.end)
\* the math-mode decision taken on the content as re.sub has rewritten it so far
match_math_rewritten ==
    is_in_math_mode(Top.out \o Slice(Top.content, Top.pos, Len(Top.content)),
                    Len(Top.out) + match.start - Top.pos)

match_math == is_in_math_mode(Top.content, match.start)
match_path == ResolvePath(DOMAIN fs, main_file, Top.current_dir, match.arg)

InSub == pc = "resolve" /\ frames # <<>> /\ Top.at = "sub"

\* re.sub copies the text up to the match and then the callback's return value
Replaced(rep) ==
    [Top EXCEPT !.out = Top.out \o Slice(Top.content, Top.pos, match.start) \o rep,
                !.pos = match.end]

SetTop(f) == [frames EXCEPT ![Len(frames)] = f]

\* re.sub's result without the text after the last match
SubResultNoRest == Top.out

\* the text the activation returns: what re.sub built and the rest of content
SubResult == Top.out \o Slice(Top.content, Top.pos, Len(Top.content))

\* A return of resolve_input_commands with value r: to inline_latex from the
\* outermost activation, else to replace_command, which wraps r and returns it
\* to the re.sub of the caller.
ReturnValue(r) ==
    IF Len(frames) = 1
    THEN /\ inlined_content' = r
         /\ frames' = <<>>
         /\ pc' = "strip"
    ELSE LET caller == frames[Len(frames) - 1]
             final_content == add_inclusion_comments(r, Top.file_path, Top.in_math_mode)
         IN /\ frames' = [SubSeq(frames, 1, Len(frames) - 1) EXCEPT
                             ![Len(frames) - 1] =
                                 [caller EXCEPT !.out = caller.out \o final_content]]
            /\ UNCHANGED <<inlined_content, pc>>

\* the depth check without the ceiling
DepthNeverExceeded == FALSE

\* `self.current_depth > self.max_depth`
DepthExceeded == current_depth > max_depth

\* the membership test without the visited set
VisitedNever(path) == FALSE

\* `file_path in self.processed_files`
Visited(path) == path \in processed_files

UnchangedOthers == UNCHANGED <<doc_tokens, scanVars, stripVars, incVars>>


----------------------------------------------------------------------------
(* Specification SpecScan: one call is_in_math_mode(text, position) *)

MaxScanTokens == 4

ScanAlphabet ==
    {Dollar, DoubleDollar, DisplayOpen, DisplayClose, ParenOpen, ParenClose,
     Begin(EnvMath), End(EnvMath), <<"a">>, <<NL>>}

ScanDocs == {d \in SeqsUpTo(ScanAlphabet, MaxScanTokens) : WellFormed(d)}

text_before == Slice(text, 0, position)

\* no call of is_in_math_mode is in progress
IdleScan ==
    /\ text = <<>>
    /\ position = 0
    /\ scan = ScanInit
    /\ scan_pc = "idle"
    /\ scan_result = FALSE

\* no call of remove_blank_lines_in_math is in progress
IdleStrip ==
    /\ content = <<>>
    /\ lines = <<>>
    /\ strip = StripInit
    /\ strip_pc = "idle"
    /\ strip_output = <<>>

\* no call of add_inclusion_comments is in progress
IdleInc ==
    /\ inc_content = <<>>
    /\ inc_file_path = <<>>
    /\ inc_in_math_mode = FALSE
    /\ inc_result = <<>>
    /\ inc_pc = "idle"

\* no run of inline_latex is in progress
IdleInline ==
    /\ fs = <<>>
    /\ unreadable = {}
    /\ main_file = <<>>
    /\ processed_files = {}
    /\ current_depth = 0
    /\ frames = <<>>
    /\ inlined_content = <<>>
    /\ stdout = <<>>
    /\ pc = "idle"

InitScan ==
    /\ doc_tokens \in ScanDocs
    /\ text = Concat(doc_tokens)
    /\ position \in 0..Len(text)
    /\ scan = ScanInit
    /\ scan_pc = "loop"
    /\ scan_result = FALSE
    /\ IdleStrip
    /\ IdleInc
    /\ IdleInline

\* one iteration of the while loop
ScanIterate ==
    /\ scan_pc = "loop"
    /\ scan.i < Len(text_before)
    /\ scan' = ScanStep(text_before, scan)
    /\ UNCHANGED <<doc_tokens, text, position, scan_pc, scan_result, stripVars, incVars,
                   inlineVars>>

\* the loop ends and the function returns
ScanReturn ==
    /\ scan_pc = "loop"
    /\ ~(scan.i < Len(text_before))
    /\ scan_result' = ScanResult(scan)
    /\ scan_pc' = "returned"
    /\ UNCHANGED <<doc_tokens, text, position, scan, stripVars, incVars, inlineVars>>

NextScan == ScanIterate \/ ScanReturn

SpecScan == InitScan /\ [][NextScan]_vars

----------------------------------------------------------------------------
(* Specification SpecScanAny: one call is_in_math_mode(text, position) on any
   text, well formed or not *)

MaxAnyTokens == 3

AnyAlphabet ==
    {<<BS>>, Dollar, DoubleDollar, <<"a">>, DisplayOpen, DisplayClose,
     Begin(EnvMath), End(EnvMath), End(EnvCases)}

InitScanAny ==
    /\ doc_tokens \in SeqsUpTo(AnyAlphabet, MaxAnyTokens)
    /\ text = Concat(doc_tokens)
    /\ position \in 0..Len(text)
    /\ scan = ScanInit
    /\ scan_pc = "loop"
    /\ scan_result = FALSE
    /\ IdleStrip
    /\ IdleInc
    /\ IdleInline

SpecScanAny == InitScanAny /\ [][NextScan]_vars

----------------------------------------------------------------------------
(* Specification SpecStrip: one call remove_blank_lines_in_math(content) on a
   document of well-formed math regions *)

MaxStripTokens == 4

StripAlphabet ==
    {Dollar, DoubleDollar, DisplayOpen, DisplayClose, ParenOpen, ParenClose,
     Begin(EnvMath), End(EnvMath), <<"a">>, <<NL>>}

StripDocs == {d \in SeqsUpTo(StripAlphabet, MaxStripTokens) : WellFormed(d)}

InitStrip ==
    /\ doc_tokens \in StripDocs
    /\ content = Concat(doc_tokens)
    /\ lines = SplitLines(content)
    /\ strip = StripInit
    /\ strip_pc = "loop"
    /\ strip_output = <<>>
    /\ IdleScan
    /\ IdleInc
    /\ IdleInline

\* one iteration of the while loop: one line
StripIterate ==
    /\ strip_pc = "loop"
    /\ strip.i < Len(lines)
    /\ strip' = StripStep(lines, strip)
    /\ UNCHANGED <<doc_tokens, content, lines, strip_pc, strip_output, scanVars, incVars,
                   inlineVars>>

\* `return '\n'.join(result)`
StripReturn ==
    /\ strip_pc = "loop"
    /\ ~(strip.i < Len(lines))
    /\ strip_output' = JoinLines(strip.result)
    /\ strip_pc' = "returned"
    /\ UNCHANGED <<doc_tokens, content, lines, strip, scanVars, incVars, inlineVars>>

NextStrip == StripIterate \/ StripReturn

SpecStrip == InitStrip /\ [][NextStrip]_vars


----------------------------------------------------------------------------
(* Specification SpecStripAny: one call remove_blank_lines_in_math(content) on
   any document, well formed or not, with spaces *)

MaxStripAnyTokens == 4

StripAnyAlphabet ==
    {Dollar, DoubleDollar, DisplayOpen, ParenOpen, Begin(EnvMath), End(EnvMath),
     <<"a">>, <<NL>>, <<SP>>}

InitStripAny ==
    /\ doc_tokens \in SeqsUpTo(StripAnyAlphabet, MaxStripAnyTokens)
    /\ content = Concat(doc_tokens)
    /\ lines = SplitLines(content)
    /\ strip = StripInit
    /\ strip_pc = "loop"
    /\ strip_output = <<>>
    /\ IdleScan
    /\ IdleInc
    /\ IdleInline

SpecStripAny == InitStripAny /\ [][NextStrip]_vars

----------------------------------------------------------------------------
(* Specification SpecStripBlock: remove_blank_lines_in_math on an environment
   block: a line \begin{NAME}, body lines, a line \end{NAME} *)

MaxBlockLines == 3

EnvOther == <<"x">>

\* the lines a block's body is made of, each as its tokens: text, blank and
\* whitespace-only lines, the begin and the end line of a nested recognized
\* environment, a recognized and an unrecognized environment on one line
BodyLines ==
    {<<<<"a">>>>, <<>>, <<<<SP>>>>, <<Begin(EnvCases)>>, <<End(EnvCases)>>,
     <<Begin(EnvMath), <<"a">>, End(EnvMath)>>,
     <<Begin(EnvOther), <<"a">>, End(EnvOther)>>}

\* the lines before the block: none, or one line of text
BlockPrefixes == {<<>>, << <<<<"a">>>> >>}

\* lines (sequences of tokens) joined by newline tokens
RECURSIVE JoinTokens(_)
JoinTokens(ls) ==
    IF ls = <<>> THEN <<>>
    ELSE IF Len(ls) = 1 THEN ls[1]
    ELSE ls[1] \o <<<<NL>>>> \o JoinTokens(Tail(ls))

BlockDocs ==
    {JoinTokens(pre \o <<<<Begin(name)>>>> \o body \o <<<<End(name)>>>>) :
        pre \in BlockPrefixes, name \in math_environments,
        body \in {b \in SeqsUpTo(BodyLines, MaxBlockLines) :
                     RegionStack(JoinTokens(b), Len(JoinTokens(b))) = <<>>}}

InitStripBlock ==
    /\ doc_tokens \in BlockDocs
    /\ content = Concat(doc_tokens)
    /\ lines = SplitLines(content)
    /\ strip = StripInit
    /\ strip_pc = "loop"
    /\ strip_output = <<>>
    /\ IdleScan
    /\ IdleInc
    /\ IdleInline

SpecStripBlock == InitStripBlock /\ [][NextStrip]_vars


----------------------------------------------------------------------------
(* Specification SpecWrap: one call
   add_inclusion_comments(content, file_path, in_math_mode) *)

MaxWrapTokens == 3

LongText == <<"a","b","c","d","e","f","g","h","i","j">>

WrapAlphabet ==
    {DoubleDollar, DisplayOpen, DisplayClose, Dollar, <<"a">>, LongText, <<NL>>, <<SP>>}

WrapFiles == {<<"f",".","t","e","x">>, <<"d","/","g",".","t","e","x">>}

InitWrap ==
    /\ doc_tokens \in SeqsUpTo(WrapAlphabet, MaxWrapTokens)
    /\ inc_content = Concat(doc_tokens)
    /\ inc_file_path \in WrapFiles
    /\ inc_in_math_mode \in BOOLEAN
    /\ inc_result = <<>>
    /\ inc_pc = "called"
    /\ IdleScan
    /\ IdleStrip
    /\ IdleInline

\* the call in math mode: safe_add_math_comments
WrapMath ==
    /\ inc_pc = "called"
    /\ inc_in_math_mode
    /\ inc_result' = add_inclusion_comments(inc_content, inc_file_path, TRUE)
    /\ inc_pc' = "returned"
    /\ UNCHANGED <<doc_tokens, inc_content, inc_file_path, inc_in_math_mode,
                   scanVars, stripVars, inlineVars>>

\* the call in text mode
WrapText ==
    /\ inc_pc = "called"
    /\ ~inc_in_math_mode
    /\ inc_result' = add_inclusion_comments(inc_content, inc_file_path, FALSE)
    /\ inc_pc' = "returned"
    /\ UNCHANGED <<doc_tokens, inc_content, inc_file_path, inc_in_math_mode,
                   scanVars, stripVars, inlineVars>>

NextWrap == WrapMath \/ WrapText

SpecWrap == InitWrap /\ [][NextWrap]_vars


----------------------------------------------------------------------------
(* Specification Spec: one run of inline_latex over a tree of files *)

\* the trees of files a run starts from

MaxFrames == 14
MaxChain == 12
MaxDirectives == 2
MaxMainTokens == 3

Tex(name) == name \o TexSuffix
Input(arg) == InputTok \o <<"{">> \o arg \o <<"}">>

MainPath == Tex(<<"m">>)
APath == Tex(<<"a">>)
BPath == Tex(<<"b">>)

Tree(f, bad, main) == [fs |-> f, unreadable |-> bad, main_file |-> main]

\* a chain of n files, each with one directive naming the next, the last one
\* naming the file at place `back`
ChainNames == <<"m", "a", "b", "c", "d", "e", "f", "g", "h", "i", "j", "k", "l", "n">>

ChainFs(n, back) ==
    [p \in {Tex(<<ChainNames[k]>>) : k \in 1..n} |->
        LET k == CHOOSE j \in 1..n : Tex(<<ChainNames[j]>>) = p
        IN Input(<<ChainNames[IF k = n THEN back ELSE k + 1]>>)]

ChainTrees ==
    UNION {{Tree(ChainFs(n, back), {}, MainPath) : back \in 1..n} : n \in 1..MaxChain}

\* a file that names itself through a directory and back (s/../m): every
\* level of the expansion spells the path of the same file differently
SpellingTrees ==
    {Tree((MainPath :> Input(<<"s", "/", ".", ".", "/", "m">>))
          @@ (<<"s", "/", "k", ".", "t", "e", "x">> :> <<"x">>), {}, MainPath)}

\* every include graph over three files: up to MaxDirectives directives in
\* m.tex and a.tex, up to one in b.tex
GraphTargets == {Input(<<"m">>), Input(<<"a">>), Input(<<"b">>)}

GraphTrees ==
    {Tree((MainPath :> Concat(dm)) @@ (APath :> Concat(da)) @@ (BPath :> Concat(db)),
          {}, MainPath) :
        dm \in SeqsUpTo(GraphTargets, MaxDirectives),
        da \in SeqsUpTo(GraphTargets, MaxDirectives),
        db \in SeqsUpTo(GraphTargets, 1)}

\* a main file of text, math and directives over a.tex and b.tex; b.tex may be
\* missing and a.tex unreadable
MainAlphabet ==
    {Input(<<"a">>), Input(<<"b">>), Dollar, DoubleDollar, <<"x">>, <<NL>>}

MainDocs == {d \in SeqsUpTo(MainAlphabet, MaxMainTokens) : WellFormed(d)}

AContents ==
    {<<"x">>,
     <<"x", NL, NL, "y">>,
     <<"$", "$", "x", "$", "$", NL, "$", "$", NL, NL, "$", "$">>,
     DisplayOpen \o <<NL>> \o LongText,
     Input(<<"b">>),
     Dollar \o Input(<<"a">>) \o Dollar}

MathTrees ==
    {Tree((MainPath :> Concat(d)) @@ (APath :> a) @@ bfile, bad, MainPath) :
        d \in MainDocs, a \in AContents, bfile \in {<<>>, BPath :> <<"y">>},
        bad \in {{}, {APath}}}

\* a main file that is missing, and one that cannot be read
FailingTrees ==
    {Tree(APath :> <<"x">>, {}, MainPath), Tree(MainPath :> <<"x">>, {MainPath}, MainPath)}

Trees == ChainTrees \cup SpellingTrees \cup GraphTrees \cup MathTrees \cup FailingTrees

Init ==
    /\ \E t \in Trees :
          /\ fs = t.fs
          /\ unreadable = t.unreadable
          /\ main_file = t.main_file
    /\ processed_files = {}
    /\ current_depth = 0
    /\ frames = <<>>
    /\ inlined_content = <<>>
    /\ stdout = <<>>
    /\ pc = "start"
    /\ doc_tokens = <<>>
    /\ IdleScan
    /\ IdleStrip
    /\ IdleInc

\* `if not self.main_file.exists(): ... return False`
InlineMainMissing ==
    /\ pc = "start"
    /\ ~Exists(DOMAIN fs, main_file)
    /\ stdout' = Append(stdout, [event |-> "main not found", path |-> main_file])
    /\ pc' = "failed"
    /\ UNCHANGED <<fs, unreadable, main_file, processed_files, current_depth, frames,
                   inlined_content>>
    /\ UnchangedOthers

\* read_file(self.main_file) raises: `except Exception ... return False`
InlineReadError ==
    /\ pc = "start"
    /\ Exists(DOMAIN fs, main_file)
    /\ ReadFails(DOMAIN fs, unreadable, main_file)
    /\ stdout' = Append(stdout, [event |-> "Error", path |-> main_file])
    /\ pc' = "failed"
    /\ UNCHANGED <<fs, unreadable, main_file, processed_files, current_depth, frames,
                   inlined_content>>
    /\ UnchangedOthers

\* the main file is read, added to processed_files, and
\* resolve_input_commands(main_content, self.main_file.parent) is called
InlineReadMain ==
    /\ pc = "start"
    /\ Exists(DOMAIN fs, main_file)
    /\ ~ReadFails(DOMAIN fs, unreadable, main_file)
    /\ processed_files' = processed_files \cup {main_file}
    /\ frames' = <<Frame(fs[RealPath(DOMAIN fs, main_file)], Parent(main_file), <<>>, FALSE)>>
    /\ pc' = "resolve"
    /\ UNCHANGED <<fs, unreadable, main_file, current_depth, inlined_content, stdout>>
    /\ UnchangedOthers

\* `if self.current_depth > self.max_depth: return content`
ResolveCeiling ==
    /\ pc = "resolve" /\ frames # <<>> /\ Top.at = "called"
    /\ DepthExceeded
    /\ ReturnValue(Top.content)
    /\ UNCHANGED <<fs, unreadable, main_file, processed_files, current_depth, stdout>>
    /\ UnchangedOthers

\* `self.current_depth += 1` and re.sub starts
ResolveEnter ==
    /\ pc = "resolve" /\ frames # <<>> /\ Top.at = "called"
    /\ ~DepthExceeded
    /\ current_depth' = current_depth + 1
    /\ frames' = SetTop([Top EXCEPT !.at = "sub"])
    /\ UNCHANGED <<fs, unreadable, main_file, processed_files, inlined_content, stdout, pc>>
    /\ UnchangedOthers

\* replace_command: no candidate path exists, the command is returned as it is
DirectiveNotFound ==
    /\ InSub /\ match # NoMatch
    /\ match_path = NotFound
    /\ frames' = SetTop(Replaced(group0))
    /\ stdout' = Append(stdout, [event |-> "Warning: Could not find file",
                                 path |-> FileArg(match.arg)])
    /\ UNCHANGED <<fs, unreadable, main_file, processed_files, current_depth,
                   inlined_content, pc>>
    /\ UnchangedOthers

\* replace_command: `if file_path in self.processed_files`
DirectiveCircular ==
    /\ InSub /\ match # NoMatch
    /\ match_path # NotFound
    /\ Visited(match_path)
    /\ frames' = SetTop(Replaced(CircularComment(group0, match_math)))
    /\ stdout' = Append(stdout, [event |-> "Warning: Circular include detected",
                                 path |-> match_path])
    /\ UNCHANGED <<fs, unreadable, main_file, processed_files, current_depth,
                   inlined_content, pc>>
    /\ UnchangedOthers

\* replace_command: the file is marked processed, read_file raises, the except
\* branch returns the error comment and the command
DirectiveReadError ==
    /\ InSub /\ match # NoMatch
    /\ match_path # NotFound
    /\ ~Visited(match_path)
    /\ ReadFails(DOMAIN fs, unreadable, match_path)
    /\ processed_files' = processed_files \cup {match_path}
    /\ frames' = SetTop(Replaced(ErrorComment(match_path, group0, match_math)))
    /\ stdout' = stdout \o <<[event |-> "Inlining", path |-> match_path],
                              [event |-> "Error processing", path |-> match_path]>>
    /\ UNCHANGED <<fs, unreadable, main_file, current_depth, inlined_content, pc>>
    /\ UnchangedOthers

\* replace_command: the file is marked processed and read, and
\* resolve_input_commands(file_content, file_path.parent) is called
DirectiveInline ==
    /\ InSub /\ match # NoMatch
    /\ match_path # NotFound
    /\ ~Visited(match_path)
    /\ ~ReadFails(DOMAIN fs, unreadable, match_path)
    /\ Len(frames) < MaxFrames
    /\ processed_files' = processed_files \cup {match_path}
    /\ frames' = Append(SetTop(Replaced(<<>>)),
                        Frame(IncludedContent(fs[RealPath(DOMAIN fs, match_path)], match_math),
                              Parent(match_path), match_path, match_math))
    /\ stdout' = Append(stdout, [event |-> "Inlining", path |-> match_path])
    /\ UNCHANGED <<fs, unreadable, main_file, current_depth, inlined_content, pc>>
    /\ UnchangedOthers

\* re.sub has no further match: `self.current_depth -= 1; return content`
ResolveReturn ==
    /\ InSub /\ match = NoMatch
    /\ current_depth' = current_depth - 1
    /\ ReturnValue(SubResult)
    /\ UNCHANGED <<fs, unreadable, main_file, processed_files, stdout>>
    /\ UnchangedOthers

\* `inlined_content = self.remove_blank_lines_in_math(inlined_content)`, the
\* output file is written, `return True`
InlineStrip ==
    /\ pc = "strip"
    /\ inlined_content' = remove_blank_lines_in_math(inlined_content)
    /\ stdout' = Append(stdout, [event |-> "Successfully created", path |-> main_file])
    /\ pc' = "done"
    /\ UNCHANGED <<fs, unreadable, main_file, processed_files, current_depth, frames>>
    /\ UnchangedOthers

Next ==
    \/ InlineMainMissing
    \/ InlineReadError
    \/ InlineReadMain
    \/ ResolveCeiling
    \/ ResolveEnter
    \/ DirectiveNotFound
    \/ DirectiveCircular
    \/ DirectiveReadError
    \/ DirectiveInline
    \/ ResolveReturn
    \/ InlineStrip

Spec == Init /\ [][Next]_vars

\* a main file that names an unreadable file and then a missing one
ErrorTrees ==
    {Tree((MainPath :> (Input(<<"a">>) \o Input(<<"b">>))) @@ (APath :> <<"x">>),
          {APath}, MainPath)}

\* the trees whose expansion the visited set or the depth ceiling has to end,
\* and the ones that end early
CyclicTrees == ChainTrees \cup SpellingTrees \cup GraphTrees \cup ErrorTrees \cup FailingTrees

InitCyclic ==
    /\ \E t \in CyclicTrees :
          /\ fs = t.fs
          /\ unreadable = t.unreadable
          /\ main_file = t.main_file
    /\ processed_files = {}
    /\ current_depth = 0
    /\ frames = <<>>
    /\ inlined_content = <<>>
    /\ stdout = <<>>
    /\ pc = "start"
    /\ doc_tokens = <<>>
    /\ IdleScan /\ IdleStrip /\ IdleInc

\* inline_latex has returned
Halted == pc \in {"done", "failed"}

\* the one step the model withholds: a call deeper than MaxFrames activations
InlineBlocked ==
    /\ InSub /\ match # NoMatch
    /\ match_path # NotFound
    /\ ~Visited(match_path)
    /\ ~ReadFails(DOMAIN fs, unreadable, match_path)
    /\ ~(Len(frames) < MaxFrames)

\* ENABLED <<Next>>_vars, written out from the guards of the actions
NextEnabled == ~Halted /\ ~InlineBlocked

\* The interpreter runs the program on: a step that can be taken is taken.
\* This is weak fairness of Next, WF_vars(Next), with its ENABLED written out
\* as NextEnabled.
Fairness == ([]<>(~NextEnabled)) \/ ([]<><<Next>>_vars)

SpecFair == InitCyclic /\ [][Next]_vars /\ Fairness


----------------------------------------------------------------------------
(* Claims on is_in_math_mode *)

\* the token boundaries of the document that lie at the scanned position
BoundariesAt(toks, pos) == {k \in 0..Len(toks) : Offset(toks, k) = pos}

\* C4: for a document of well-formed, properly nested math regions,
\* is_in_math_mode returns true at every offset strictly inside a region and
\* false at every offset outside all regions.
C4_TrackerMatchesRegions ==
    scan_pc = "returned" =>
        \A k \in BoundariesAt(doc_tokens, position) :
            scan_result = (RegionStack(doc_tokens, k) # <<>>)

\* the math state of the scan: the three flags and the stack
MathState(s) == <<s.in_math, s.in_display_math, s.in_double_dollar, s.math_env_stack>>

\* the number of backslashes that directly precede offset k of s
RECURSIVE BackslashRun(_, _)
BackslashRun(s, k) == IF k > 0 /\ s[k] = BS THEN 1 + BackslashRun(s, k - 1) ELSE 0

\* the character at offset k is escaped: an odd run of backslashes precedes it
Escaped(s, k) == BackslashRun(s, k) % 2 = 1

\* the loop is about to read the character c
Reads(c) == scan_pc = "loop" /\ scan.i < Len(text_before) /\ text_before[scan.i + 1] = c

\* C11: the iteration of is_in_math_mode that reads an escaped dollar leaves
\* the math state (in_math, in_display_math, in_double_dollar, the stack) as
\* it is, whatever character follows the dollar.
C11_EscapedDollarInert ==
    [][(Reads("$") /\ Escaped(text_before, scan.i)) =>
            MathState(scan') = MathState(scan)]_vars

\* C14: at every step of the scan of is_in_math_mode, in_math is true
\* whenever in_display_math is true, in_double_dollar is true or the stack is
\* not empty.
C14_InMathCoversRegions ==
    (scan.in_display_math \/ scan.in_double_dollar \/ scan.math_env_stack # <<>>)
        => scan.in_math

\* the \end{NAME} the loop is about to read, if any (len = 0 for none)
EndRead == BraceMatch(text_before, scan.i, EndTok)

\* the loop is about to read an \end{NAME} whose NAME is not the one on top of
\* the stack
ReadsForeignEnd ==
    /\ Reads(BS)
    /\ EndRead.len > 0
    /\ scan.math_env_stack # <<>>
    /\ EndRead.name # scan.math_env_stack[Len(scan.math_env_stack)]

\* C15: in is_in_math_mode an \end{NAME} whose NAME differs from the name on
\* top of math_env_stack is ignored: the stack and the flags stay as they are.
C15_ForeignEndIgnored ==
    [][ReadsForeignEnd => MathState(scan') = MathState(scan)]_vars

\* the loop is about to read a backslash and the character after it, and the
\* two do not form \[, \], \(, \), \begin or \end
ReadsFreePair ==
    /\ Reads(BS)
    /\ scan.i + 1 < Len(text_before)
    /\ text_before[scan.i + 2] \notin {"[", "]", "(", ")"}
    /\ ~StartsWithAt(text_before, scan.i, BeginTok)
    /\ ~StartsWithAt(text_before, scan.i, EndTok)

\* s with the two characters at offsets k and k + 1 replaced by plain letters
Blanked(s, k) == [j \in 1..Len(s) |-> IF j \in {k + 1, k + 2} THEN "a" ELSE s[j]]

\* C16: a backslash followed by a character that forms none of the tokens
\* consumes both characters: the rest of the scan goes as if two plain
\* letters stood in their place, the character after the pair read unescaped.
C16_BackslashConsumesPair ==
    ReadsFreePair =>
        MathState(ScanLoop(text_before, scan))
            = MathState(ScanLoop(Blanked(text_before, scan.i), scan))

\* one scan of the whole text txt, run on from s: its state when it first is
\* at or past offset p
RECURSIVE ScanPast(_, _, _)
ScanPast(txt, s, p) ==
    IF s.i < p /\ s.i < Len(txt) THEN ScanPast(txt, ScanStep(txt, s), p) ELSE s

\* the same scan: its last state at or before offset p
RECURSIVE ScanUpTo(_, _, _)
ScanUpTo(txt, s, p) ==
    IF s.i < Len(txt) /\ ScanStep(txt, s).i <= p
    THEN ScanUpTo(txt, ScanStep(txt, s), p) ELSE s

\* C18: for every text and position p, is_in_math_mode(text, p) is the math
\* state that one left-to-right scan of the whole text holds at offset p; where
\* p lies inside a token of that scan, the state just before or just after
\* the token.
C18_ConsistentWithOneScan ==
    scan_pc = "returned" =>
        scan_result \in {ScanResult(ScanUpTo(text, ScanInit, position)),
                         ScanResult(ScanPast(text, ScanInit, position))}

----------------------------------------------------------------------------
(* Claims on remove_blank_lines_in_math *)

IsBlank(line) == Strip(line) = <<>>

\* the offset in `content` of the first character of line k (1-based)
RECURSIVE LineOffset(_, _)
LineOffset(ls, k) == IF k = 1 THEN 0 ELSE LineOffset(ls, k - 1) + Len(ls[k - 1]) + 1

\* the line the next iteration reads is a blank line, ended by a newline, at an
\* offset outside every math region
BlankLineOutsideMath ==
    /\ strip_pc = "loop"
    /\ strip.i + 1 < Len(lines)
    /\ IsBlank(lines[strip.i + 1])
    /\ ~is_in_math_mode(content, LineOffset(lines, strip.i + 1))

\* C5: remove_blank_lines_in_math never drops a blank line that lies outside
\* every math region of a well-formed document: the iteration that reads such a
\* line appends it to the result.
C5_OutsideBlankLinesKept ==
    [][BlankLineOutsideMath =>
        strip'.result = Append(strip.result, lines[strip.i + 1])]_vars

NonBlank(line) == ~IsBlank(line)

\* C6: of a block \begin{NAME} ... \end{NAME} (NAME a recognized environment;
\* text lines, blank lines and nested environments in between)
\* remove_blank_lines_in_math removes every blank line between the begin line
\* and the matching end line and nothing else: the result is the block's
\* non-blank lines, unchanged and in order.
C6_BlockBlankLinesRemoved ==
    strip_pc = "returned" => strip_output = JoinLines(SelectSeq(lines, NonBlank))

\* a block with a blank line after a nested environment has been processed
C6_Witness ==
    /\ strip_pc = "returned"
    /\ \E k \in 2..(Len(lines) - 2) :
          /\ Contains(lines[k], End(EnvCases))
          /\ IsBlank(lines[k + 1])
    /\ Len(strip.result) < Len(lines)

\* the offset in `content` of the end of line k (1-based)
LineEnd(ls, k) == LineOffset(ls, k) + Len(ls[k])

\* C17: for a well-formed document, after each line the any-math value of
\* remove_blank_lines_in_math equals is_in_math_mode of the document at the
\* offset of that line's end.
C17_LinePassAgreesWithScan ==
    (strip_pc = "loop" /\ strip.i >= 1) =>
        any_math_mode(strip) = is_in_math_mode(content, LineEnd(lines, strip.i))

\* C20: remove_blank_lines_in_math changes nothing but the set of blank
\* lines: at every iteration and at the return, the non-blank lines of the
\* result are the non-blank lines read so far, in the same order and
\* untrimmed.
C20_NonBlankLinesKept ==
    /\ strip_pc = "loop" =>
          SelectSeq(strip.result, NonBlank)
             = SelectSeq(SubSeq(lines, 1, strip.i), NonBlank)
    /\ strip_pc = "returned" =>
          SelectSeq(SplitLines(strip_output), NonBlank) = SelectSeq(lines, NonBlank)

\* a call has returned that dropped a blank line and kept a line with a space
\* at its edge
C20_Witness ==
    /\ strip_pc = "returned"
    /\ Len(strip.result) < Len(lines)
    /\ \E k \in 1..Len(strip.result) :
          NonBlank(strip.result[k]) /\ Strip(strip.result[k]) # strip.result[k]

----------------------------------------------------------------------------
(* Claims on add_inclusion_comments *)

NumBlank(ls) == Len(SelectSeq(ls, IsBlank))

\* the complete lines of a text: those ended by a newline (what follows the
\* last newline continues with the text the result is spliced into)
CompleteLines(t) == LET ls == SplitLines(t) IN SubSeq(ls, 1, Len(ls) - 1)

\* C2: in math mode the wrapper inserts no blank line: the result of
\* add_inclusion_comments has no more blank lines than the content has.
C2_MathWrapAddsNoBlankLine ==
    (inc_pc = "returned" /\ inc_in_math_mode) =>
        NumBlank(CompleteLines(inc_result)) <= NumBlank(SplitLines(inc_content))

\* the marker, where a line holds it, is all there is on that line
OnOwnLine(t, marker, name) ==
    \A k \in 1..Len(SplitLines(t)) :
        Contains(SplitLines(t)[k], marker) =>
            SplitLines(t)[k] = marker \o name \o DashesLit

\* C12: in text mode add_inclusion_comments puts the begin marker and the end
\* marker each on a line of its own, also for content that does not end with
\* a newline: no character of the content shares a line with a marker.
C12_TextMarkersOnOwnLines ==
    (inc_pc = "returned" /\ ~inc_in_math_mode) =>
        /\ Contains(inc_result, BeginIncludedLit)
        /\ Contains(inc_result, EndIncludedLit)
        /\ OnOwnLine(inc_result, BeginIncludedLit, BaseName(inc_file_path))
        /\ OnOwnLine(inc_result, EndIncludedLit, BaseName(inc_file_path))

----------------------------------------------------------------------------
(* Claims on inline_latex and resolve_input_commands *)

\* C1: the document inline_latex produces has no blank line (ended by a
\* newline) at an offset where is_in_math_mode of that document is true.
C1_NoBlankLineInMath ==
    pc = "done" =>
        LET ls == SplitLines(inlined_content)
        IN \A k \in 1..(Len(ls) - 1) :
              IsBlank(ls[k]) => ~is_in_math_mode(inlined_content, LineOffset(ls, k))

LastLine(t) == LET ls == SplitLines(t) IN ls[Len(ls)]

\* no comment is left open at the end of a replacement: its last line, which
\* the text after the directive continues, holds no "%"
CommentsClosed(rep) == ~Contains(LastLine(rep), <<"%">>)

\* this step replaces the directive at `match`, found in math mode, in place
ReplacesInMath ==
    /\ InSub /\ match # NoMatch /\ match_math
    /\ Len(frames') = Len(frames)

\* this step returns from the expansion of a file included in math mode
ReturnsIntoMath ==
    /\ pc = "resolve" /\ Len(frames) > 1 /\ Top.in_math_mode
    /\ Len(frames') = Len(frames) - 1

\* C3: whatever replaces a directive found in math mode (the wrapped content,
\* the circular-inclusion comment, the error comment) ends every comment it
\* inserts with a newline, so that the text after the directive is not
\* commented out.  (No file of the trees holds a "%" of its own.)
C3_MathCommentsTerminated ==
    [][/\ ReplacesInMath =>
            CommentsClosed(Slice(frames'[Len(frames)].out,
                                 Len(Top.out) + match.start - Top.pos,
                                 Len(frames'[Len(frames)].out)))
       /\ ReturnsIntoMath =>
            CommentsClosed(Slice(frames'[Len(frames')].out,
                                 Len(frames[Len(frames) - 1].out),
                                 Len(frames'[Len(frames')].out)))]_vars

\* a text with none of the tokens that open a math region
NoMathOpener(t) ==
    /\ ~Contains(t, Dollar)
    /\ ~Contains(t, DisplayOpen)
    /\ ~Contains(t, ParenOpen)
    /\ ~Contains(t, BeginTok)

MainContent == fs[RealPath(DOMAIN fs, main_file)]

\* C7: resolve_input_commands returns a document without directives unchanged,
\* and remove_blank_lines_in_math returns a document without math regions
\* unchanged.
C7_IdentityWithoutDirectivesAndMath ==
    [][/\ (pc # "strip" /\ pc' = "strip" /\ NextMatch(MainContent, 0) = NoMatch)
            => inlined_content' = MainContent
       /\ (pc = "strip" /\ NoMathOpener(inlined_content))
            => inlined_content' = inlined_content]_vars

\* a main file without directives and math, with a blank line, has gone
\* through both passes
C7_Witness ==
    /\ pc = "done"
    /\ NextMatch(MainContent, 0) = NoMatch
    /\ NoMathOpener(MainContent)
    /\ Contains(MainContent, <<NL, NL>>)
    /\ inlined_content = MainContent

\* the tree is a chain of files, one directive each, that closes on itself
IsChain == \E n \in 1..Cardinality(DOMAIN fs) : \E back \in 1..n : fs = ChainFs(n, back)

ChainLength == Cardinality(DOMAIN fs)

\* the Inlining lines printed for a file
InliningCount(path) ==
    Len(SelectSeq(stdout, LAMBDA e : e.event = "Inlining" /\ e.path = path))

\* the expansion of the chain is as claimed: the ceiling is never met and, at
\* the end, there is one circular-inclusion marker and every file but the main
\* file (read once by inline_latex) was read once and is inlined once
ChainExpandedOnce ==
    /\ ~(pc = "resolve" /\ frames # <<>> /\ Top.at = "called" /\ DepthExceeded)
    /\ pc = "done" =>
          /\ Count(inlined_content, CircularLit) = 1
          /\ InliningCount(main_file) = 0
          /\ \A p \in DOMAIN fs \ {main_file} :
                /\ InliningCount(p) = 1
                /\ Count(inlined_content, BeginIncludedLit \o BaseName(p)) = 1

C9_Terminates == <>(pc \in {"done", "failed"})

\* the expansion of the file that names itself under ever-different spellings
\* has ended, cut by the ceiling after max_depth + 1 levels
C9_Witness ==
    /\ pc = "done"
    /\ Cardinality(processed_files) = max_depth + 2
    /\ \A p \in processed_files : RealPath(DOMAIN fs, p) = main_file

\* this step is the read of the file of the directive at `match` failing
ReadFailure ==
    /\ InSub /\ match # NoMatch
    /\ match_path # NotFound /\ ~Visited(match_path)
    /\ ReadFails(DOMAIN fs, unreadable, match_path)

\* an error comment and then the directive as it was written
IsErrorReplacement(rep, g0) ==
    LET body == Strip(rep)
        ls == SplitLines(body)
    IN /\ Len(ls) = 2
       /\ StartsWith(ls[1], ErrorLit)
       /\ ls[2] = g0

\* C10: when the read of a directive's file fails, the directive is replaced
\* by an error comment followed by the directive as written, the same
\* activation goes on with the rest of its content, and a readable file named
\* by the main file is inlined whether its directive comes before or after.
C10_ReadFailureIsolated ==
    [][/\ ReadFailure =>
            /\ Len(frames') = Len(frames)
            /\ pc' = "resolve"
            /\ frames'[Len(frames)].at = "sub"
            /\ frames'[Len(frames)].pos = match.end
            /\ current_depth' = current_depth
            /\ IsErrorReplacement(Slice(frames'[Len(frames)].out,
                                        Len(Top.out) + match.start - Top.pos,
                                        Len(frames'[Len(frames)].out)), group0)
       /\ (/\ pc' = "done" /\ unreadable = {APath} /\ BPath \in DOMAIN fs
           /\ Contains(MainContent, Input(<<"a">>))
           /\ Contains(MainContent, Input(<<"b">>)))
            => /\ Contains(inlined_content', ErrorLit \o APath)
               /\ Contains(inlined_content', BaseName(BPath))
               /\ Contains(inlined_content', fs[BPath])]_vars

\* a run has ended whose main file names the unreadable a.tex first and the
\* readable b.tex after it
C10_Witness ==
    /\ pc = "done"
    /\ unreadable = {APath}
    /\ MainContent = Input(<<"a">>) \o Input(<<"b">>)
    /\ Contains(inlined_content, ErrorLit \o APath)
    /\ Contains(inlined_content, BeginIncludedLit \o BaseName(BPath))

\* the activations of resolve_input_commands that are expanding directives
Expanding == {k \in 1..Len(frames) : frames[k].at = "sub"}

\* C13: current_depth never exceeds the ceiling max_depth in any state of an
\* expansion: directives are expanded in at most max_depth nested levels of
\* resolve_input_commands.
C13_DepthWithinCeiling ==
    /\ current_depth <= max_depth
    /\ Cardinality(Expanding) <= max_depth

\* the directives of a content, from left to right
RECURSIVE MatchesFrom(_, _)
MatchesFrom(c, from) ==
    LET m == NextMatch(c, from)
    IN IF m = NoMatch THEN <<>> ELSE <<m>> \o MatchesFrom(c, m.end)

\* the files the directives of file p name, p readable
Targets(p) ==
    IF ReadFails(DOMAIN fs, unreadable, p) THEN {}
    ELSE LET ms == MatchesFrom(fs[RealPath(DOMAIN fs, p)], 0)
         IN {ResolvePath(DOMAIN fs, main_file, Parent(p), ms[k].arg) : k \in 1..Len(ms)}
                \ {NotFound}

\* the files whose expansion is under way: the main file and those of the
\* activations on the stack
Active == {main_file} \cup {frames[k].file_path : k \in 1..Len(frames)}

\* the files the directives of the content under resolution name before the
\* next one
NamedBefore ==
    LET ms == MatchesFrom(Top.content, 0)
    IN {ResolvePath(DOMAIN fs, main_file, Top.current_dir, ms[k].arg) :
           k \in {j \in 1..Len(ms) : ms[j].start < match.start}} \ {NotFound}

\* every expansion begun before the next directive is finished: the files the
\* earlier directives name are processed, and so is every file named by a
\* processed file whose expansion is not under way (the ceiling not in play)
EarlierExpansionsFinished ==
    /\ NamedBefore \subseteq processed_files
    /\ Cardinality(processed_files) <= max_depth =>
          \A p \in processed_files \ Active : Targets(p) \subseteq processed_files

\* C19: the directives of one content are resolved from left to right and
\* depth-first.  While the expansion of a directive runs, the resolution of the
\* content that holds it does not advance; when the next directive is
\* resolved, every file the earlier ones reach is in processed_files; a file
\* is inlined once, and a directive that names a file already processed gets
\* the circular-inclusion marker; and the math-mode decision for a directive
\* is taken on the content as it was passed in, not on what earlier directives
\* were replaced with.
C19_LeftToRightDepthFirst ==
    [][/\ \A k \in 1..(Len(frames) - 1) :
             k <= Len(frames') => frames'[k].pos = frames[k].pos
       /\ (InSub /\ Len(frames') >= Len(frames)) =>
             frames'[Len(frames)].pos >= Top.pos
       /\ (InSub /\ match # NoMatch) => EarlierExpansionsFinished
       /\ \A p \in DOMAIN fs : InliningCount(p)' <= 1
       /\ (InSub /\ match # NoMatch /\ match_path # NotFound /\ Visited(match_path)) =>
             /\ Len(frames') = Len(frames)
             /\ processed_files' = processed_files
             /\ Contains(Slice(frames'[Len(frames)].out, Len(Top.out),
                                Len(frames'[Len(frames)].out)),
                         CircularLit \o group0)
       /\ (InSub /\ Len(frames') = Len(frames) + 1) =>
             frames'[Len(frames')].in_math_mode
                = is_in_math_mode(Top.content, match.start)]_vars

\* a.tex names b.tex, the main file names a.tex and then b.tex: b.tex was
\* inlined once, under the first directive, and the second got the marker
C19_Witness ==
    /\ pc = "done"
    /\ MainContent = Input(<<"a">>) \o Input(<<"b">>)
    /\ APath \in DOMAIN fs /\ fs[APath] = Input(<<"b">>)
    /\ BPath \in DOMAIN fs
    /\ unreadable = {}
    /\ InliningCount(BPath) = 1
    /\ Find(inlined_content, BeginIncludedLit \o BaseName(BPath))
          < Find(inlined_content, EndIncludedLit \o BaseName(APath))
    /\ Find(inlined_content, CircularLit \o Input(<<"b">>))
          > Find(inlined_content, EndIncludedLit \o BaseName(APath))

====
